---- MODULE Spec2Model ----
(***************************************************************************)
(* The Attio MCP server (mcp_servers/attio/index.ts): the streamable-HTTP  *)
(* transport (/mcp), the deprecated HTTP+SSE transport (/sse, /messages),  *)
(* the AsyncLocalStorage request context and the call-tool dispatcher.     *)
(***************************************************************************)
EXTENDS Integers, Sequences, FiniteSets, TLC

\* Bounds of the model.
MaxReqs == 2
MaxSessions == 2
\* Close events delivered to the close handler of one session.
MaxCloses == 2
\* Notes in one fetched page.
MaxNotes == 2

\* ------------------------------------------------------------------------
\* Inputs

\* Values of the x-auth-token header; "" is an absent header.
Headers == {"", "tokA", "tokB"}

\* Values of process.env.ATTIO_API_KEY; "" is an unset variable.
EnvKeys == {"", "envKey"}

\* Tool names in the order the list-tools handler returns them.
ToolCatalog ==
    << "attio_search_people", "attio_search_companies", "attio_search_deals",
       "attio_search_notes", "attio_create_note", "attio_create_person",
       "attio_create_company", "attio_update_person", "attio_update_company" >>

\* Names a client sends that are not tools of this server.
UnknownNames == {"attio_delete_person"}

\* JSON values as the handlers see them: the typeof tag t, the characters of
\* a string (s), a number (n), the items of an array (a) and the
\* properties of an object (o). Strings are sequences of one-character
\* strings.
JValue(t, s, n, a, o) == [t |-> t, s |-> s, n |-> n, a |-> a, o |-> o]

Undefined == JValue("undefined", <<>>, 0, <<>>, <<>>)
JNull == JValue("null", <<>>, 0, <<>>, <<>>)
JTrue == JValue("boolean", <<>>, 1, <<>>, <<>>)
JString(s) == JValue("string", s, 0, <<>>, <<>>)
JNumber(n) == JValue("number", <<>>, n, <<>>, <<>>)
JArray(a) == JValue("array", <<>>, 0, a, <<>>)
JObject(o) == JValue("object", <<>>, 0, <<>>, o)

\* typeof v
TypeOf(v) == IF v.t \in {"null", "array"} THEN "object" ELSE v.t

\* Array.isArray(v)
IsArray(v) == v.t = "array"

\* v as a condition: if (v), !v, v || w.
Truthy(v) ==
    CASE v.t = "string" -> v.s # <<>>
      [] v.t \in {"number", "boolean"} -> v.n # 0
      [] v.t \in {"undefined", "null"} -> FALSE
      [] OTHER -> TRUE

\* request.params.arguments when the request carries none.
NoArgs == Undefined

\* args?.key
Get(args, key) ==
    IF args.t = "object" /\ key \in DOMAIN args.o THEN args.o[key] ELSE Undefined

\* The characters of a string in a template literal or a URL.
RECURSIVE Join(_)
Join(chars) == IF chars = <<>> THEN "" ELSE Head(chars) \o Join(Tail(chars))

\* String.prototype.toLowerCase over the letters the inputs use.
toLowerCase(chars) ==
    [i \in 1..Len(chars) |->
        CASE chars[i] = "A" -> "a"
          [] chars[i] = "B" -> "b"
          [] chars[i] = "C" -> "c"
          [] OTHER -> chars[i]]

\* String.prototype.includes
includes(chars, search) ==
    \E i \in 1..(Len(chars) - Len(search) + 1) :
        SubSeq(chars, i, i + Len(search) - 1) = search

RECURSIVE trimStart(_)
trimStart(chars) ==
    IF chars # <<>> /\ Head(chars) = " " THEN trimStart(Tail(chars)) ELSE chars

RECURSIVE trimEnd(_)
trimEnd(chars) ==
    IF chars # <<>> /\ chars[Len(chars)] = " "
    THEN trimEnd(SubSeq(chars, 1, Len(chars) - 1))
    ELSE chars

\* String.prototype.trim
trim(chars) == trimEnd(trimStart(chars))

\* Tool names clients send in tools/call requests.
RequestNames ==
    {"attio_search_notes", "attio_create_person"} \cup UnknownNames

\* Bodies of POST requests: one protocol message.
Messages ==
    {[method |-> "tools/list", name |-> "", arguments |-> NoArgs]}
        \cup {[method |-> "tools/call", name |-> n, arguments |-> NoArgs] :
                  n \in RequestNames}

\* What the outbound fetch does: an OK response with a JSON body, a non-OK
\* response, or a rejected fetch (network failure).
FetchOutcomes ==
    { [kind |-> "ok", status |-> "200", statusText |-> "OK", text |-> "", json |-> JObject([data |-> JArray(<<>>)])],
      [kind |-> "http", status |-> "401", statusText |-> "Unauthorized", text |-> "denied", json |-> JObject([data |-> JArray(<<>>)])],
      [kind |-> "reject", status |-> "", statusText |-> "", text |-> "fetch failed", json |-> JObject([data |-> JArray(<<>>)])] }

None == [none |-> TRUE]

\* Argument values clients send: a string, the empty string and a number
\* (the wrong type for a string argument, as a string is for a number).
ArgValues == {JString(<<"a">>), JString(<<>>), JNumber(5)}

\* The arguments objects over a set of argument names.
ArgObjects(fields, values) ==
    {JObject(o) : o \in UNION {[D -> values] : D \in SUBSET fields}}

\* The properties of the input schema of each search tool.
SchemaFields(name) ==
    CASE name = "attio_search_people" -> {"query", "email", "limit"}
      [] name = "attio_search_companies" -> {"query", "domain", "limit"}
      [] name = "attio_search_deals" ->
            {"name", "stage", "minValue", "maxValue", "limit"}
      [] name = "attio_search_notes" -> {"query", "limit"}

\* Queries of a note search: empty, blank, lower and upper case, two
\* letters, and one with a leading space.
NoteQueries ==
    { JString(<<>>), JString(<<" ">>), JString(<<"a">>), JString(<<"B">>),
      JString(<<"a", "b">>), JString(<<" ", "c">>), JNumber(5) }

NoteLimits == {JNumber(1), JNumber(2), JString(<<"a">>)}

\* The arguments of attio_search_notes calls.
NoteArgs ==
    {JObject(o) : o \in
        [{"query", "limit"} -> NoteQueries \cup NoteLimits]
            \cup [{"query"} -> NoteQueries] \cup [{"limit"} -> NoteLimits]
            \cup {<<>>}}

\* Arguments whose limit is above the maximum the schemas document (50),
\* and one whose limit is zero.
OverLimitArgs ==
    {JObject([limit |-> JNumber(100)]), JObject([limit |-> JNumber(0)])}

\* tools/call messages of the search tools with their arguments.
ToolMessages ==
    {[method |-> "tools/call", name |-> n, arguments |-> a] :
        n \in {"attio_search_people", "attio_search_companies",
                "attio_search_deals", "attio_search_notes"},
        a \in {NoArgs} \cup OverLimitArgs}
    \cup UNION {{[method |-> "tools/call", name |-> n, arguments |-> a] :
                    a \in ArgObjects(SchemaFields(n), ArgValues)} :
                n \in {"attio_search_people", "attio_search_companies",
                        "attio_search_deals"}}
    \cup {[method |-> "tools/call", name |-> "attio_search_notes",
           arguments |-> a] : a \in NoteArgs}

\* Values clients send for an array argument: an array of one string, an
\* empty array and a string (the wrong type).
ArrayValues ==
    {JArray(<< JString(<<"a">>) >>), JArray(<<>>), JString(<<"a">>)}

\* The properties of the input schema of each create and update tool.
WriteFields(name) ==
    CASE name = "attio_create_note" ->
            {"parent_object", "parent_record_id", "title", "content", "format"}
      [] name = "attio_create_person" ->
            {"name", "email_addresses", "phone_numbers", "job_title",
             "description"}
      [] name = "attio_create_company" -> {"name", "domains", "description"}
      [] name = "attio_update_person" ->
            {"record_id", "name", "email_addresses", "phone_numbers",
             "job_title", "description"}
      [] name = "attio_update_company" ->
            {"record_id", "name", "domains", "description"}

\* The values sent for one argument: array values for the arguments the
\* schemas declare as arrays, string and number values for the others.
ValuesOf(key) ==
    IF key \in {"email_addresses", "phone_numbers", "domains"}
    THEN ArrayValues ELSE ArgValues

\* The arguments objects of a create or update tool.
WriteArgs(name) ==
    {JObject(o) : o \in
        UNION {{f \in [D -> ArgValues \cup ArrayValues] :
                    \A k \in D : f[k] \in ValuesOf(k)} :
               D \in SUBSET WriteFields(name)}}

\* tools/call messages of the create and update tools, with arguments and
\* without.
WriteMessages ==
    UNION {{[method |-> "tools/call", name |-> n, arguments |-> a] :
                a \in WriteArgs(n) \cup {NoArgs}} :
           n \in {"attio_create_note", "attio_create_person",
                   "attio_create_company", "attio_update_person",
                   "attio_update_company"}}

\* Notes the backend holds: a title in mixed case, a null title with a
\* plain-text content, a numeric title with a markdown content, and a title
\* that matches none of the letters a and b.
NotePool ==
    { JObject([id |-> JNumber(1), title |-> JString(<<"A", "b">>)]),
      JObject([id |-> JNumber(2), title |-> JNull,
               content_plaintext |-> JString(<<"b", " ", "c">>)]),
      JObject([id |-> JNumber(3), title |-> JNumber(7),
               content_markdown |-> JString(<<"A">>)]),
      JObject([id |-> JNumber(4), title |-> JString(<<"c">>)]) }

\* Pages of notes the backend answers GET /notes with.
NotePages ==
    {JObject([data |-> JArray(page)]) :
        page \in UNION {[1..k -> NotePool] : k \in 0..MaxNotes}}

\* Answers that are not a page: null, an object without data, and an object
\* whose data is not an array.
MalformedPages ==
    { JNull, JObject([message |-> JString(<<"x">>)]),
      JObject([data |-> JString(<<"x">>)]) }

\* What the outbound fetch of a search does.
ToolOutcomes ==
    FetchOutcomes \cup
    {[kind |-> "ok", status |-> "200", statusText |-> "OK", text |-> "",
      json |-> j] : j \in NotePages \cup MalformedPages}

\* ------------------------------------------------------------------------
\* State

VARIABLES
    envKey,             \* process.env.ATTIO_API_KEY
    reqs,               \* inbound HTTP requests, in arrival order
    asyncLocalStorage,  \* per request: the store bound to its async execution (0: none)
    clients,            \* AttioClient instances, in construction order
    transports,         \* the session map: sessionId -> SSE transport
    sessions,           \* event-stream connections, in opening order
    outbound            \* the fetch calls makeRequest has issued

vars == << envKey, reqs, asyncLocalStorage, clients, transports, sessions,
           outbound >>

ATTIO_API_URL == "https://api.attio.com/v2"

\* ------------------------------------------------------------------------
\* AttioClient

\* new AttioClient(apiKey)
AttioClient(apiKey) == [apiKey |-> apiKey, baseUrl |-> ATTIO_API_URL]

\* JSON.stringify(value) of a request body.
JSONStringifyBody(value) == [json |-> value, indent |-> 0]

\* The request makeRequest hands to fetch.
makeRequest(client, endpoint, method, body) ==
    [ url |-> client.baseUrl \o endpoint,
      method |-> method,
      authorization |-> "Bearer " \o client.apiKey,
      body |-> body ]

\* What makeRequest returns or throws once fetch has settled.
makeRequestResult(outcome) ==
    CASE outcome.kind = "ok" -> [ok |-> TRUE, value |-> outcome.json, message |-> ""]
      [] outcome.kind = "http" ->
            [ ok |-> FALSE, value |-> None,
              message |-> "Attio API error: " \o outcome.status \o " "
                            \o outcome.statusText \o " - " \o outcome.text ]
      [] OTHER -> [ok |-> FALSE, value |-> None, message |-> outcome.text]

\* A query body that always carries the filter key.
QueryBodyAlwaysFilter(filters, limit) ==
    JSONStringifyBody([filter |-> filters, limit |-> limit])

\* The body of searchPeople, searchCompanies and searchDeals.
QueryBody(filters, limit) ==
    IF DOMAIN filters = {}
    THEN JSONStringifyBody([limit |-> limit])
    ELSE JSONStringifyBody([filter |-> filters, limit |-> limit])

searchPeople(filters, limit) ==
    [endpoint |-> "/objects/people/records/query", method |-> "POST",
     body |-> QueryBody(filters, limit)]

searchCompanies(filters, limit) ==
    [endpoint |-> "/objects/companies/records/query", method |-> "POST",
     body |-> QueryBody(filters, limit)]

searchDeals(filters, limit) ==
    [endpoint |-> "/objects/deals/records/query", method |-> "POST",
     body |-> QueryBody(filters, limit)]

\* searchNotes: the request for one page of notes.
searchNotes(query, limit) ==
    [endpoint |-> "/notes?limit=" \o ToString(limit.n), method |-> "GET",
     body |-> None]

\* A searchNotes that compares the query with the notes as they are written.
searchNotesCaseSensitive(query, allNotesRaw) ==
    LET allNotes ==
            IF /\ TypeOf(allNotesRaw) = "object"
               /\ allNotesRaw # JNull
               /\ "data" \in DOMAIN allNotesRaw.o
               /\ IsArray(allNotesRaw.o["data"])
            THEN allNotesRaw
            ELSE JObject([data |-> JArray(<<>>)])
        Match(note) ==
            \/ TypeOf(Get(note, "title")) = "string"
                    /\ includes(Get(note, "title").s, query.s)
            \/ TypeOf(Get(note, "content_plaintext")) = "string"
                    /\ includes(Get(note, "content_plaintext").s, query.s)
            \/ TypeOf(Get(note, "content_markdown")) = "string"
                    /\ includes(Get(note, "content_markdown").s, query.s)
    IN  IF ~Truthy(query) \/ trim(query.s) = <<>>
        THEN allNotes
        ELSE JObject([allNotes.o EXCEPT
                        !["data"] = JArray(SelectSeq(allNotes.o["data"].a, Match))])

\* searchNotes: what it returns from the fetched response.
searchNotesResult(query, allNotesRaw) ==
    LET allNotes ==
            IF /\ TypeOf(allNotesRaw) = "object"
               /\ allNotesRaw # JNull
               /\ "data" \in DOMAIN allNotesRaw.o
               /\ IsArray(allNotesRaw.o["data"])
            THEN allNotesRaw
            ELSE JObject([data |-> JArray(<<>>)])
        queryLower == toLowerCase(query.s)
        Match(note) ==
            \/ TypeOf(Get(note, "title")) = "string"
                    /\ includes(toLowerCase(Get(note, "title").s), queryLower)
            \/ TypeOf(Get(note, "content_plaintext")) = "string"
                    /\ includes(toLowerCase(Get(note, "content_plaintext").s),
                                queryLower)
            \/ TypeOf(Get(note, "content_markdown")) = "string"
                    /\ includes(toLowerCase(Get(note, "content_markdown").s),
                                queryLower)
    IN  IF ~Truthy(query) \/ trim(query.s) = <<>>
        THEN allNotes
        ELSE JObject([allNotes.o EXCEPT
                        !["data"] = JArray(SelectSeq(allNotes.o["data"].a, Match))])

\* 'plaintext'
Plaintext == JString(<< "p", "l", "a", "i", "n", "t", "e", "x", "t" >>)

createNote(data) ==
    [endpoint |-> "/notes", method |-> "POST",
     body |-> JSONStringifyBody(
        [data |-> [parent_object |-> data.parent_object,
                   parent_record_id |-> data.parent_record_id,
                   title |-> data.title,
                   format |-> IF Truthy(data.format) THEN data.format
                              ELSE Plaintext,
                   content |-> data.content]])]

\* phoneNumbers.map((phoneNumber) => ({original_phone_number: phoneNumber}))
PhoneNumbers(items) ==
    [i \in 1..Len(items) |-> [original_phone_number |-> items[i]]]

\* recordData of createPerson and updatePerson.
PersonRecordData(data) ==
    (IF Truthy(data.name) THEN "name" :> data.name ELSE <<>>)
    @@ (IF Truthy(data.email_addresses)
        THEN "email_addresses" :> data.email_addresses ELSE <<>>)
    @@ (IF Truthy(data.phone_numbers)
        THEN "phone_numbers" :> PhoneNumbers(data.phone_numbers.a) ELSE <<>>)
    @@ (IF Truthy(data.job_title) THEN "job_title" :> data.job_title ELSE <<>>)
    @@ (IF Truthy(data.description)
        THEN "description" :> data.description ELSE <<>>)

\* recordData of createCompany and updateCompany.
CompanyRecordData(data) ==
    (IF Truthy(data.name) THEN "name" :> data.name ELSE <<>>)
    @@ (IF Truthy(data.domains) THEN "domains" :> data.domains ELSE <<>>)
    @@ (IF Truthy(data.description)
        THEN "description" :> data.description ELSE <<>>)

createPerson(data) ==
    [endpoint |-> "/objects/people/records", method |-> "POST",
     body |-> JSONStringifyBody([data |-> [values |-> PersonRecordData(data)]])]

createCompany(data) ==
    [endpoint |-> "/objects/companies/records", method |-> "POST",
     body |-> JSONStringifyBody([data |-> [values |-> CompanyRecordData(data)]])]

updatePerson(recordId, data) ==
    [endpoint |-> "/objects/people/records/" \o Join(recordId.s),
     method |-> "PATCH",
     body |-> JSONStringifyBody([data |-> [values |-> PersonRecordData(data)]])]

updateCompany(recordId, data) ==
    [endpoint |-> "/objects/companies/records/" \o Join(recordId.s),
     method |-> "PATCH",
     body |-> JSONStringifyBody([data |-> [values |-> CompanyRecordData(data)]])]

\* ------------------------------------------------------------------------
\* Request context

\* A context store kept in one shared variable: every lookup sees the store
\* of the latest request that is inside a run.
getStoreShared(r) ==
    LET bound == {q \in 1..Len(asyncLocalStorage) : asyncLocalStorage[q] # 0}
    IN  IF bound = {} THEN 0
        ELSE asyncLocalStorage[CHOOSE q \in bound : \A p \in bound : p <= q]

\* asyncLocalStorage.getStore() called from the async execution of request r:
\* the store bound by the run that started that execution (0: undefined).
getStore(r) == asyncLocalStorage[r]

\* getAttioClient() called from the async execution of request r.
getAttioClient(r) ==
    IF getStore(r) = 0
    THEN [ok |-> FALSE, client |-> 0,
          message |-> "Attio client not found in AsyncLocalStorage"]
    ELSE [ok |-> TRUE, client |-> getStore(r), message |-> ""]

\* ------------------------------------------------------------------------
\* Protocol engine handlers

\* A list-tools handler that lists the create tools before the search tools.
ListToolsReordered ==
    [tools |-> SubSeq(ToolCatalog, 5, 9) \o SubSeq(ToolCatalog, 1, 4)]

\* The list-tools handler's result.
ListTools == [tools |-> ToolCatalog]

\* A switch without the case of the last tool of the catalog.
SwitchCasesShort ==
    {"attio_search_people", "attio_search_companies", "attio_search_deals",
     "attio_search_notes", "attio_create_note", "attio_create_person",
     "attio_create_company", "attio_update_person"}

\* The case labels of the call-tool handler's switch.
SwitchCases ==
    {"attio_search_people", "attio_search_companies", "attio_search_deals",
     "attio_search_notes", "attio_create_note", "attio_create_person",
     "attio_create_company", "attio_update_person", "attio_update_company"}

\* JSON.stringify(value, null, 2)
JSONStringify(value) == [json |-> value, indent |-> 2]

\* A case that flags its result as an error.
SuccessResultFlagged(value) ==
    [content |-> << [type |-> "text", text |-> JSONStringify(value)] >>,
     isError |-> TRUE]

\* The result a case returns after its adapter call.
SuccessResult(value) ==
    [content |-> << [type |-> "text", text |-> JSONStringify(value)] >>]

\* A catch block that returns the message without flagging the result.
ErrorResultNoFlag(message) ==
    [content |-> << [type |-> "text", text |-> "Error: " \o message] >>]

\* The result the catch block returns.
ErrorResult(message) ==
    [content |-> << [type |-> "text", text |-> "Error: " \o message] >>,
     isError |-> TRUE]

\* typeof args?.key === 'string' ? args.key : default
StringOr(args, key, default) ==
    IF TypeOf(Get(args, key)) = "string" THEN Get(args, key) ELSE default

\* A limit coercion that caps the caller's number at the documented maximum.
NumberOrCapped(args, key, default) ==
    IF TypeOf(Get(args, key)) = "number"
    THEN IF Get(args, key).n > 50 THEN JNumber(50) ELSE Get(args, key)
    ELSE default

\* typeof args?.key === 'number' ? args.key : default
NumberOr(args, key, default) ==
    IF TypeOf(Get(args, key)) = "number" THEN Get(args, key) ELSE default

\* { $contains: value }
Contains(value) == "$contains" :> value

\* filters of the attio_search_people case.
PeopleFilters(args) ==
    (IF TypeOf(Get(args, "query")) = "string"
     THEN "$or" :>
            << [name |-> Contains(Get(args, "query"))],
               [email_addresses |-> Contains(Get(args, "query"))],
               [description |-> Contains(Get(args, "query"))],
               [job_title |-> Contains(Get(args, "query"))],
               [path |-> << <<"people", "company">>, <<"companies", "name">> >>,
                constraints |-> Contains(Get(args, "query"))],
               [path |-> << <<"people", "company">>,
                            <<"companies", "description">> >>,
                constraints |-> Contains(Get(args, "query"))],
               [primary_location |->
                    [locality |-> Contains(Get(args, "query"))]] >>
     ELSE <<>>)
    @@ (IF TypeOf(Get(args, "email")) = "string"
        THEN "email_addresses" :> Get(args, "email") ELSE <<>>)

\* filters of the attio_search_companies case.
CompaniesFilters(args) ==
    (IF TypeOf(Get(args, "query")) = "string"
     THEN "$or" :>
            << [name |-> Contains(Get(args, "query"))],
               [domains |-> [domain |-> Contains(Get(args, "query"))]],
               [description |-> Contains(Get(args, "query"))],
               [primary_location |->
                    [locality |-> Contains(Get(args, "query"))]],
               [path |-> << <<"companies", "team">>, <<"people", "name">> >>,
                constraints |-> Contains(Get(args, "query"))],
               [path |-> << <<"companies", "team">>,
                            <<"people", "description">> >>,
                constraints |-> Contains(Get(args, "query"))] >>
     ELSE <<>>)
    @@ (IF TypeOf(Get(args, "domain")) = "string"
        THEN "domains" :> [domain |-> Get(args, "domain")] ELSE <<>>)

\* filters of the attio_search_deals case.
DealsFilters(args) ==
    (IF TypeOf(Get(args, "name")) = "string"
     THEN "name" :> Contains(Get(args, "name")) ELSE <<>>)
    @@ (IF TypeOf(Get(args, "stage")) = "string"
        THEN "stage" :> Get(args, "stage") ELSE <<>>)
    @@ (IF \/ TypeOf(Get(args, "minValue")) = "number"
           \/ TypeOf(Get(args, "maxValue")) = "number"
        THEN "value" :>
                ((IF TypeOf(Get(args, "minValue")) = "number"
                  THEN "$gte" :> Get(args, "minValue") ELSE <<>>)
                 @@ (IF TypeOf(Get(args, "maxValue")) = "number"
                     THEN "$lte" :> Get(args, "maxValue") ELSE <<>>))
        ELSE <<>>)

\* An array coercion that passes any value on.
ArrayOrAny(args, key) == Get(args, key)

\* Array.isArray(args?.key) ? args.key : undefined
ArrayOr(args, key) ==
    IF IsArray(Get(args, key)) THEN Get(args, key) ELSE Undefined

\* The arguments each case of the switch passes to its adapter method.
CoercedArgs(name, args) ==
    CASE name = "attio_search_people" ->
            [filters |-> PeopleFilters(args),
             limit |-> NumberOr(args, "limit", JNumber(25))]
      [] name = "attio_search_companies" ->
            [filters |-> CompaniesFilters(args),
             limit |-> NumberOr(args, "limit", JNumber(25))]
      [] name = "attio_search_deals" ->
            [filters |-> DealsFilters(args),
             limit |-> NumberOr(args, "limit", JNumber(25))]
      [] name = "attio_search_notes" ->
            [query |-> StringOr(args, "query", JString(<<>>)),
             limit |-> NumberOr(args, "limit", JNumber(50))]
      [] name = "attio_create_note" ->
            [data |->
                [parent_object |-> StringOr(args, "parent_object", JString(<<>>)),
                 parent_record_id |->
                     StringOr(args, "parent_record_id", JString(<<>>)),
                 title |-> StringOr(args, "title", JString(<<>>)),
                 content |-> StringOr(args, "content", JString(<<>>)),
                 format |-> StringOr(args, "format", Plaintext)]]
      [] name \in {"attio_create_person", "attio_update_person"} ->
            [recordId |-> StringOr(args, "record_id", JString(<<>>)),
             data |->
                [name |-> StringOr(args, "name", Undefined),
                 email_addresses |-> ArrayOr(args, "email_addresses"),
                 phone_numbers |-> ArrayOr(args, "phone_numbers"),
                 job_title |-> StringOr(args, "job_title", Undefined),
                 description |-> StringOr(args, "description", Undefined)]]
      [] name \in {"attio_create_company", "attio_update_company"} ->
            [recordId |-> StringOr(args, "record_id", JString(<<>>)),
             data |->
                [name |-> StringOr(args, "name", Undefined),
                 domains |-> ArrayOr(args, "domains"),
                 description |-> StringOr(args, "description", Undefined)]]

\* The adapter call each case of the switch makes with the coerced
\* arguments: its endpoint, HTTP method and body.
AdapterCall(name, args) ==
    LET coerced == CoercedArgs(name, args)
    IN  CASE name = "attio_search_people" ->
                searchPeople(coerced.filters, coerced.limit)
          [] name = "attio_search_companies" ->
                searchCompanies(coerced.filters, coerced.limit)
          [] name = "attio_search_deals" ->
                searchDeals(coerced.filters, coerced.limit)
          [] name = "attio_search_notes" ->
                searchNotes(coerced.query, coerced.limit)
          [] name = "attio_create_note" -> createNote(coerced.data)
          [] name = "attio_create_person" -> createPerson(coerced.data)
          [] name = "attio_create_company" -> createCompany(coerced.data)
          [] name = "attio_update_person" ->
                updatePerson(coerced.recordId, coerced.data)
          [] name = "attio_update_company" ->
                updateCompany(coerced.recordId, coerced.data)

\* What the adapter method of a case returns from the fetched response.
AdapterResult(name, args, value) ==
    IF name = "attio_search_notes"
    THEN searchNotesResult(StringOr(args, "query", JString(<<>>)), value)
    ELSE value

\* The call-tool handler of request r up to its first await: either it
\* returns a result, or it awaits the adapter's outbound call.
CallToolStart(r, name) ==
    IF name \notin SwitchCases
    THEN [kind |-> "return", client |-> 0,
          result |-> ErrorResult("Unknown tool: " \o name)]
    ELSE IF ~getAttioClient(r).ok
    THEN [kind |-> "return", client |-> 0,
          result |-> ErrorResult(getAttioClient(r).message)]
    ELSE [kind |-> "await", client |-> getAttioClient(r).client, result |-> None]

\* A handler that reports a failed adapter call as an empty success.
CallToolFinishSwallow(name, args, outcome) ==
    IF makeRequestResult(outcome).ok
    THEN SuccessResult(AdapterResult(name, args, makeRequestResult(outcome).value))
    ELSE SuccessResult(None)

\* The call-tool handler after the adapter call has settled.
CallToolFinish(name, args, outcome) ==
    IF makeRequestResult(outcome).ok
    THEN SuccessResult(AdapterResult(name, args, makeRequestResult(outcome).value))
    ELSE ErrorResult(makeRequestResult(outcome).message)

\* ------------------------------------------------------------------------
\* HTTP layer

\* A credential lookup that turns a missing credential into a string.
OrUndefined(a, b) == IF a # "" THEN a ELSE IF b # "" THEN b ELSE "undefined"

\* A credential lookup that prefers the request's header.
OrHeaderFirst(a, b) == IF b # "" THEN b ELSE a

\* a || b on strings: the first operand unless it is falsy.
Or(a, b) == IF a # "" THEN a ELSE b

\* The 405 body with the code of the internal-error envelope.
MethodNotAllowedWrongCode ==
    [jsonrpc |-> "2.0",
     error |-> [code |-> -32603, message |-> "Method not allowed."],
     id |-> "null"]

\* The body of the 405 answers of GET /mcp and DELETE /mcp.
MethodNotAllowed ==
    [jsonrpc |-> "2.0",
     error |-> [code |-> -32000, message |-> "Method not allowed."],
     id |-> "null"]

\* The body of the 500 answer of POST /mcp.
InternalServerError ==
    [jsonrpc |-> "2.0",
     error |-> [code |-> -32603, message |-> "Internal server error"],
     id |-> "null"]

\* The body of the 404 answer of POST /messages.
TransportNotFound == [error |-> "Transport not found"]

\* A JSON-RPC response carrying a handler's result.
RpcResponse(result) == [jsonrpc |-> "2.0", id |-> 1, result |-> result]

\* A request as it arrives: no adapter, no engine, nothing sent.
\* pc is the handler's position: "connecting" (awaiting server.connect),
\* "handling" (inside run, the transport reading the body), "awaiting" (the
\* tool handler awaiting fetch), "done" (the engine has sent its response),
\* "returned" (the route handler returned with nothing pending), "rejected"
\* (the promise of the run callback was rejected, with nobody awaiting it).
NewReq(route, header, sid) ==
    [ route |-> route, header |-> header, sid |-> sid,
      body |-> None,      \* the protocol message, once the transport has read it
      pc |-> "returned",
      client |-> 0,       \* the AttioClient the route handler constructed
      server |-> "none",  \* the protocol engine the route handler created:
                          \* "none", "created", "connected" or "closed"
      used |-> 0,         \* the client getAttioClient gave the tool handler
      fetched |-> None,   \* how the adapter's fetch settled
      result |-> None,    \* what the engine's request handler returned
      status |-> 0,       \* HTTP status sent (0: none)
      httpBody |-> None,  \* HTTP body sent
      event |-> None,     \* message sent on the session's event stream
      transport |-> "none",   \* the request's own transport: "none",
                              \* "created" or "closed"
      onClose |-> FALSE,  \* res.on('close') has registered the release
      conn |-> "open" ]   \* the request's connection: "open" or "closed"

Init ==
    /\ envKey \in EnvKeys
    /\ reqs = << >>
    /\ asyncLocalStorage = << >>
    /\ clients = << >>
    /\ transports = {}
    /\ sessions = << >>
    /\ outbound = {}

\* app.post('/mcp') up to await server.connect(transport)
PostMcp(header) ==
    /\ Len(reqs) < MaxReqs
    /\ LET apiKey == Or(envKey, header)
           req == NewReq("POST /mcp", header, 0)
       IN  IF apiKey = ""
           THEN /\ reqs' = Append(reqs, req)
                /\ UNCHANGED clients
           ELSE /\ clients' = Append(clients, AttioClient(apiKey))
                /\ reqs' = Append(reqs,
                       [req EXCEPT !.pc = "connecting",
                                   !.client = Len(clients) + 1,
                                   !.server = "created",
                                   !.transport = "created"])
    /\ asyncLocalStorage' = Append(asyncLocalStorage, 0)
    /\ UNCHANGED << envKey, transports, sessions, outbound >>

\* A /mcp handler that calls transport.handleRequest outside any run.
McpConnectedNoRun(r) ==
    /\ r \in 1..Len(reqs)
    /\ reqs[r].pc = "connecting"
    /\ reqs' = [reqs EXCEPT ![r].pc = "handling", ![r].server = "connected",
                            ![r].onClose = TRUE]
    /\ UNCHANGED << envKey, asyncLocalStorage, clients, transports, sessions,
                    outbound >>

\* app.post('/mcp'): server.connect resolved; asyncLocalStorage.run starts
\* transport.handleRequest, which suspends reading the body, and the route
\* handler registers the release on the response's close event.
McpConnected(r) ==
    /\ r \in 1..Len(reqs)
    /\ reqs[r].pc = "connecting"
    /\ asyncLocalStorage' = [asyncLocalStorage EXCEPT ![r] = reqs[r].client]
    /\ reqs' = [reqs EXCEPT ![r].pc = "handling", ![r].server = "connected",
                            ![r].onClose = TRUE]
    /\ UNCHANGED << envKey, clients, transports, sessions, outbound >>

\* app.post('/mcp'): server.connect threw; the catch block answers 500.
McpConnectFailed(r) ==
    /\ r \in 1..Len(reqs)
    /\ reqs[r].pc = "connecting"
    /\ reqs' = [reqs EXCEPT ![r].pc = "returned", ![r].status = 500,
                            ![r].httpBody = InternalServerError]
    /\ UNCHANGED << envKey, asyncLocalStorage, clients, transports, sessions,
                    outbound >>

\* A transport fault that also drops the session of the request.
TransportFailedDrop(r) ==
    /\ r \in 1..Len(reqs)
    /\ reqs[r].pc = "handling"
    /\ reqs' = [reqs EXCEPT ![r].pc = "rejected"]
    /\ asyncLocalStorage' = [asyncLocalStorage EXCEPT ![r] = 0]
    /\ transports' = transports \ {reqs[r].sid}
    /\ UNCHANGED << envKey, clients, sessions, outbound >>

\* transport.handleRequest or transport.handlePostMessage of request r
\* throws inside the callback of asyncLocalStorage.run. The route handler
\* does not await the promise run returns: its catch block never sees the
\* fault and nothing is sent.
TransportFailed(r) ==
    /\ r \in 1..Len(reqs)
    /\ reqs[r].pc = "handling"
    /\ reqs' = [reqs EXCEPT ![r].pc = "rejected"]
    /\ asyncLocalStorage' = [asyncLocalStorage EXCEPT ![r] = 0]
    /\ UNCHANGED << envKey, clients, transports, sessions, outbound >>

\* The connection of POST /mcp request r closes, after its response or
\* because the client went away: the response emits 'close', and the
\* handler res.on('close') registered, if any, calls transport.close() and
\* server.close(). Between the creation of the transport and the end of
\* await server.connect no event is delivered.
McpClose(r) ==
    /\ r \in 1..Len(reqs)
    /\ reqs[r].route = "POST /mcp"
    /\ reqs[r].pc # "connecting"
    /\ reqs[r].conn = "open"
    /\ reqs' = [reqs EXCEPT
            ![r].conn = "closed",
            ![r].transport = IF reqs[r].onClose THEN "closed" ELSE @,
            ![r].server = IF reqs[r].onClose THEN "closed" ELSE @]
    /\ UNCHANGED << envKey, asyncLocalStorage, clients, transports, sessions,
                    outbound >>

\* app.get('/mcp')
GetMcp(header) ==
    /\ Len(reqs) < MaxReqs
    /\ reqs' = Append(reqs, [NewReq("GET /mcp", header, 0)
                               EXCEPT !.status = 405, !.httpBody = MethodNotAllowed])
    /\ asyncLocalStorage' = Append(asyncLocalStorage, 0)
    /\ UNCHANGED << envKey, clients, transports, sessions, outbound >>

\* app.delete('/mcp')
DeleteMcp(header) ==
    /\ Len(reqs) < MaxReqs
    /\ reqs' = Append(reqs, [NewReq("DELETE /mcp", header, 0)
                               EXCEPT !.status = 405, !.httpBody = MethodNotAllowed])
    /\ asyncLocalStorage' = Append(asyncLocalStorage, 0)
    /\ UNCHANGED << envKey, clients, transports, sessions, outbound >>

\* A /sse handler that connects the engine without registering the transport.
GetSseNoRegister ==
    /\ Len(sessions) < MaxSessions
    /\ sessions' = Append(sessions, [open |-> TRUE, server |-> "connected", closes |-> 0])
    /\ UNCHANGED << envKey, reqs, asyncLocalStorage, clients, transports, outbound >>

\* app.get('/sse'): a new transport with a fresh sessionId is registered and
\* a new protocol engine is connected to it.
GetSse ==
    /\ Len(sessions) < MaxSessions
    /\ sessions' = Append(sessions,
            [open |-> TRUE, server |-> "connected", closes |-> 0])
    /\ transports' = transports \cup {Len(sessions) + 1}
    /\ UNCHANGED << envKey, reqs, asyncLocalStorage, clients, outbound >>

\* A close handler that leaves the session map as it is.
SseCloseNoDelete(s) ==
    /\ s \in 1..Len(sessions)
    /\ sessions[s].open
    /\ sessions' = [sessions EXCEPT ![s].open = FALSE, ![s].closes = 1]
    /\ UNCHANGED << envKey, reqs, asyncLocalStorage, clients, transports, outbound >>

\* res.on('close') of app.get('/sse'): the connection of session s closes.
SseClose(s) ==
    /\ s \in 1..Len(sessions)
    /\ sessions[s].open
    /\ sessions' = [sessions EXCEPT ![s].open = FALSE, ![s].closes = 1]
    /\ transports' = transports \ {s}
    /\ UNCHANGED << envKey, reqs, asyncLocalStorage, clients, outbound >>

\* A close handler that empties the session map.
SseCloseAgainClear(s) ==
    /\ s \in 1..Len(sessions)
    /\ ~sessions[s].open
    /\ sessions[s].closes < MaxCloses
    /\ sessions' = [sessions EXCEPT ![s].closes = @ + 1]
    /\ transports' = {}
    /\ UNCHANGED << envKey, reqs, asyncLocalStorage, clients, outbound >>

\* res.on('close') of app.get('/sse') runs once more for session s, whose
\* entry it has already deleted: transports.delete(transport.sessionId).
SseCloseAgain(s) ==
    /\ s \in 1..Len(sessions)
    /\ ~sessions[s].open
    /\ sessions[s].closes < MaxCloses
    /\ sessions' = [sessions EXCEPT ![s].closes = @ + 1]
    /\ transports' = transports \ {s}
    /\ UNCHANGED << envKey, reqs, asyncLocalStorage, clients, outbound >>

\* A /messages handler that keeps one adapter per session: a later message
\* on a session runs with the adapter of the session's first message.
PostMessagesCached(sid, header) ==
    /\ Len(reqs) < MaxReqs
    /\ LET apiKey == Or(envKey, header)
           req == NewReq("POST /messages", header, sid)
           earlier == {q \in 1..Len(reqs) :
                          reqs[q].route = "POST /messages" /\ reqs[q].sid = sid
                              /\ reqs[q].client # 0}
           first == CHOOSE q \in earlier : \A p \in earlier : q <= p
       IN  IF sid \notin transports
           THEN /\ reqs' = Append(reqs, [req EXCEPT !.status = 404,
                                                    !.httpBody = [error |-> "Transport not found"]])
                /\ asyncLocalStorage' = Append(asyncLocalStorage, 0)
                /\ UNCHANGED clients
           ELSE IF apiKey = ""
           THEN /\ reqs' = Append(reqs, req)
                /\ asyncLocalStorage' = Append(asyncLocalStorage, 0)
                /\ UNCHANGED clients
           ELSE IF earlier # {}
           THEN /\ reqs' = Append(reqs,
                       [req EXCEPT !.pc = "handling", !.client = reqs[first].client])
                /\ asyncLocalStorage' = Append(asyncLocalStorage, reqs[first].client)
                /\ UNCHANGED clients
           ELSE /\ clients' = Append(clients, AttioClient(apiKey))
                /\ reqs' = Append(reqs,
                       [req EXCEPT !.pc = "handling", !.client = Len(clients) + 1])
                /\ asyncLocalStorage' = Append(asyncLocalStorage, Len(clients) + 1)
    /\ UNCHANGED << envKey, transports, sessions, outbound >>

\* A /messages handler that pins the credential of a session's first message:
\* a later message gets a new adapter built with that earlier credential.
PostMessagesPinned(sid, header) ==
    /\ Len(reqs) < MaxReqs
    /\ LET req == NewReq("POST /messages", header, sid)
           earlier == {q \in 1..Len(reqs) :
                          reqs[q].route = "POST /messages" /\ reqs[q].sid = sid
                              /\ reqs[q].client # 0}
           first == CHOOSE q \in earlier : \A p \in earlier : q <= p
           apiKey == IF earlier # {} THEN clients[reqs[first].client].apiKey
                     ELSE Or(envKey, header)
       IN  IF sid \notin transports
           THEN /\ reqs' = Append(reqs, [req EXCEPT !.status = 404,
                                                    !.httpBody = [error |-> "Transport not found"]])
                /\ asyncLocalStorage' = Append(asyncLocalStorage, 0)
                /\ UNCHANGED clients
           ELSE IF apiKey = ""
           THEN /\ reqs' = Append(reqs, req)
                /\ asyncLocalStorage' = Append(asyncLocalStorage, 0)
                /\ UNCHANGED clients
           ELSE /\ clients' = Append(clients, AttioClient(apiKey))
                /\ reqs' = Append(reqs,
                       [req EXCEPT !.pc = "handling", !.client = Len(clients) + 1])
                /\ asyncLocalStorage' = Append(asyncLocalStorage, Len(clients) + 1)
    /\ UNCHANGED << envKey, transports, sessions, outbound >>

\* A /messages handler that checks the credential before the session.
PostMessagesCredentialFirst(sid, header) ==
    /\ Len(reqs) < MaxReqs
    /\ LET apiKey == Or(envKey, header)
           req == NewReq("POST /messages", header, sid)
       IN  IF apiKey = ""
           THEN /\ reqs' = Append(reqs, req)
                /\ asyncLocalStorage' = Append(asyncLocalStorage, 0)
                /\ UNCHANGED clients
           ELSE IF sid \notin transports
           THEN /\ reqs' = Append(reqs, [req EXCEPT !.status = 404,
                                                    !.httpBody = TransportNotFound])
                /\ asyncLocalStorage' = Append(asyncLocalStorage, 0)
                /\ UNCHANGED clients
           ELSE /\ clients' = Append(clients, AttioClient(apiKey))
                /\ reqs' = Append(reqs,
                       [req EXCEPT !.pc = "handling", !.client = Len(clients) + 1])
                /\ asyncLocalStorage' = Append(asyncLocalStorage, Len(clients) + 1)
    /\ UNCHANGED << envKey, transports, sessions, outbound >>

\* app.post('/messages') up to transport.handlePostMessage reading the body
PostMessages(sid, header) ==
    /\ Len(reqs) < MaxReqs
    /\ LET apiKey == Or(envKey, header)
           req == NewReq("POST /messages", header, sid)
       IN  IF sid \notin transports
           THEN /\ reqs' = Append(reqs, [req EXCEPT !.status = 404,
                                                    !.httpBody = TransportNotFound])
                /\ asyncLocalStorage' = Append(asyncLocalStorage, 0)
                /\ UNCHANGED clients
           ELSE IF apiKey = ""
           THEN /\ reqs' = Append(reqs, req)
                /\ asyncLocalStorage' = Append(asyncLocalStorage, 0)
                /\ UNCHANGED clients
           ELSE /\ clients' = Append(clients, AttioClient(apiKey))
                /\ reqs' = Append(reqs,
                       [req EXCEPT !.pc = "handling", !.client = Len(clients) + 1])
                /\ asyncLocalStorage' = Append(asyncLocalStorage, Len(clients) + 1)
    /\ UNCHANGED << envKey, transports, sessions, outbound >>

\* handlePostMessage answers the POST itself with 202 once the message has
\* been handed to the engine; the /mcp transport answers with the response.
Accepted(req) ==
    IF req.route = "POST /messages"
    THEN [req EXCEPT !.status = 202, !.httpBody = [text |-> "Accepted"]]
    ELSE req

\* transport.send of a handler's result: the HTTP response of a /mcp request,
\* an event on the session's stream (lost when it has closed) for /messages.
Sent(req, result) ==
    IF req.route = "POST /mcp"
    THEN IF req.conn = "open"
         THEN [req EXCEPT !.pc = "done", !.result = result, !.status = 200,
                          !.httpBody = RpcResponse(result)]
         ELSE [req EXCEPT !.pc = "done", !.result = result]
    ELSE [req EXCEPT !.pc = "done", !.result = result,
                     !.event = IF sessions[req.sid].open
                               THEN RpcResponse(result) ELSE None]

\* The transport has read the body of request r, a tools/list message, and
\* the engine handles it.
HandleListTools(r, body) ==
    /\ r \in 1..Len(reqs)
    /\ reqs[r].pc = "handling"
    /\ body.method = "tools/list"
    /\ reqs' = [reqs EXCEPT ![r] =
            Sent(Accepted([reqs[r] EXCEPT !.body = body]), ListTools)]
    /\ asyncLocalStorage' = [asyncLocalStorage EXCEPT ![r] = 0]
    /\ UNCHANGED << envKey, clients, transports, sessions, outbound >>

\* The transport has read the body of request r, a tools/call message: the
\* call-tool handler runs up to its return or to the await of the adapter's
\* fetch.
HandleCallTool(r, body) ==
    /\ r \in 1..Len(reqs)
    /\ reqs[r].pc = "handling"
    /\ body.method = "tools/call"
    /\ LET start == CallToolStart(r, body.name)
           call == AdapterCall(body.name, body.arguments)
           req == [reqs[r] EXCEPT !.body = body]
       IN  IF start.kind = "return"
           THEN /\ reqs' = [reqs EXCEPT ![r] = Sent(Accepted(req), start.result)]
                /\ asyncLocalStorage' = [asyncLocalStorage EXCEPT ![r] = 0]
                /\ UNCHANGED outbound
           ELSE /\ reqs' = [reqs EXCEPT ![r] =
                       [Accepted(req) EXCEPT !.pc = "awaiting",
                                                 !.used = start.client]]
                /\ outbound' = outbound \cup
                       {[req |-> r, attempt |-> 1, client |-> start.client,
                         fetch |-> makeRequest(clients[start.client],
                                               call.endpoint, call.method,
                                               call.body)]}
                /\ UNCHANGED asyncLocalStorage
    /\ UNCHANGED << envKey, clients, transports, sessions >>

\* A handler whose context stays bound after it has returned.
FetchSettledKeep(r, outcome) ==
    /\ r \in 1..Len(reqs)
    /\ reqs[r].pc = "awaiting"
    /\ reqs' = [reqs EXCEPT ![r] =
            Sent([reqs[r] EXCEPT !.fetched = outcome],
                 CallToolFinish(reqs[r].body.name, reqs[r].body.arguments,
                                outcome))]
    /\ UNCHANGED << envKey, asyncLocalStorage, clients, transports, sessions,
                    outbound >>

\* An adapter that issues a failed call a second time.
FetchSettledRetry(r, outcome) ==
    /\ r \in 1..Len(reqs)
    /\ reqs[r].pc = "awaiting"
    /\ LET first == CHOOSE o \in outbound : o.req = r /\ o.attempt = 1
           retried == \E o \in outbound : o.req = r /\ o.attempt = 2
       IN  IF ~makeRequestResult(outcome).ok /\ ~retried
           THEN /\ outbound' = outbound \cup {[first EXCEPT !.attempt = 2]}
                /\ UNCHANGED << reqs, asyncLocalStorage >>
           ELSE /\ reqs' = [reqs EXCEPT ![r] =
                       Sent([reqs[r] EXCEPT !.fetched = outcome],
                            CallToolFinish(reqs[r].body.name,
                                           reqs[r].body.arguments, outcome))]
                /\ asyncLocalStorage' = [asyncLocalStorage EXCEPT ![r] = 0]
                /\ UNCHANGED outbound
    /\ UNCHANGED << envKey, clients, transports, sessions >>

\* The adapter's fetch settles and the call-tool handler returns.
FetchSettled(r, outcome) ==
    /\ r \in 1..Len(reqs)
    /\ reqs[r].pc = "awaiting"
    /\ reqs' = [reqs EXCEPT ![r] =
            Sent([reqs[r] EXCEPT !.fetched = outcome],
                 CallToolFinish(reqs[r].body.name, reqs[r].body.arguments,
                                outcome))]
    /\ asyncLocalStorage' = [asyncLocalStorage EXCEPT ![r] = 0]
    /\ UNCHANGED << envKey, clients, transports, sessions, outbound >>

Next ==
    \/ \E h \in Headers : PostMcp(h)
    \/ \E r \in 1..MaxReqs : McpConnected(r)
    \/ \E r \in 1..MaxReqs : McpConnectFailed(r)
    \/ \E r \in 1..MaxReqs : TransportFailed(r)
    \/ \E h \in Headers : GetMcp(h)
    \/ \E h \in Headers : DeleteMcp(h)
    \/ GetSse
    \/ \E s \in 1..MaxSessions : SseClose(s)
    \/ \E sid \in 0..Len(sessions), h \in Headers : PostMessages(sid, h)
    \/ \E r \in 1..MaxReqs, m \in Messages : HandleListTools(r, m)
    \/ \E r \in 1..MaxReqs, m \in Messages : HandleCallTool(r, m)
    \/ \E r \in 1..MaxReqs, o \in FetchOutcomes : FetchSettled(r, o)

Spec == Init /\ [][Next]_vars

\* One credentialed POST /mcp request whose transport is about to read the
\* message: the state after PostMcp("tokA") and McpConnected(1).
ToolInit ==
    /\ envKey = ""
    /\ reqs = << [NewReq("POST /mcp", "tokA", 0) EXCEPT
                    !.pc = "handling", !.client = 1, !.server = "connected",
                    !.transport = "created", !.onClose = TRUE] >>
    /\ asyncLocalStorage = << 1 >>
    /\ clients = << AttioClient("tokA") >>
    /\ transports = {}
    /\ sessions = << >>
    /\ outbound = {}

\* The call-tool handler applied to the search tools over their arguments
\* and the backend's answers.
ToolNext ==
    \/ \E m \in ToolMessages : HandleCallTool(1, m)
    \/ \E o \in ToolOutcomes : FetchSettled(1, o)

ToolSpec == ToolInit /\ [][ToolNext]_vars

\* tools/call messages for names that are not tools of this server.
UnknownMessages ==
    {[method |-> "tools/call", name |-> n, arguments |-> NoArgs] :
        n \in UnknownNames}

\* The call-tool handler applied to every registered tool over its
\* arguments, and to an unknown name.
CoerceNext ==
    \/ /\ reqs[1].pc = "handling"
       /\ \E m \in ToolMessages \cup WriteMessages \cup UnknownMessages :
            HandleCallTool(1, m)
    \/ \E o \in FetchOutcomes : FetchSettled(1, o)

CoerceSpec == ToolInit /\ [][CoerceNext]_vars

\* The server with the connections of POST /mcp requests closing.
NextWithMcpClose ==
    \/ Next
    \/ \E r \in 1..MaxReqs : McpClose(r)

McpCloseSpec == Init /\ [][NextWithMcpClose]_vars

\* The server with close events that may be delivered more than once.
NextWithRepeatedClose ==
    \/ Next
    \/ \E s \in 1..MaxSessions : SseCloseAgain(s)

RepeatedCloseSpec == Init /\ [][NextWithRepeatedClose]_vars

\* ------------------------------------------------------------------------
\* Claims

Reqs == 1..Len(reqs)

\* The credential the code extracts for a request: the process-wide default
\* when it is set, the request's own x-auth-token header otherwise.
Credential(r) == IF envKey # "" THEN envKey ELSE reqs[r].header

IsPost(r) == reqs[r].route \in {"POST /mcp", "POST /messages"}

\* Request r is inside the run scope of its route handler.
InRun(r) == reqs[r].pc \in {"handling", "awaiting"}

\* C1: isolation. Whatever the interleaving of in-flight requests bound to
\* different contexts, a lookup made from a request's own execution, before
\* or after its outbound-call suspension, gives the adapter constructed for
\* that request; the adapter its tool handler obtained is its own, and its
\* outbound call carries its own credential.
C1_Isolation ==
    \A r \in Reqs :
        /\ InRun(r) =>
                /\ getAttioClient(r).ok
                /\ getAttioClient(r).client = reqs[r].client
        /\ reqs[r].used # 0 => reqs[r].used = reqs[r].client
        /\ \A o \in outbound :
                o.req = r =>
                    /\ o.client = reqs[r].client
                    /\ o.fetch.authorization = "Bearer " \o Credential(r)

\* Two tool calls over the two transports, bound to different credentials,
\* are both suspended in their outbound calls.
C1_Witness ==
    \E r1 \in Reqs, r2 \in Reqs :
        /\ reqs[r1].route = "POST /mcp" /\ reqs[r2].route = "POST /messages"
        /\ reqs[r1].pc = "awaiting" /\ reqs[r2].pc = "awaiting"
        /\ clients[reqs[r1].used].apiKey # clients[reqs[r2].used].apiKey

\* The newest request.
Last(rs) == rs[Len(rs)]

\* At this step a POST /messages request arrives.
MessagePosted ==
    /\ Len(reqs') = Len(reqs) + 1
    /\ Last(reqs').route = "POST /messages"

\* C2: a POST /messages whose sessionId names no open session (an id never
\* registered, or the id of a session whose connection has closed) is
\* answered 404 with {error: "Transport not found"}.
C2_UnknownSession ==
    [][ (/\ MessagePosted
         /\ \/ Last(reqs').sid \notin 1..Len(sessions)
            \/ ~sessions[Last(reqs').sid].open)
        => /\ Last(reqs').status = 404
           /\ Last(reqs').httpBody = [error |-> "Transport not found"]
           /\ Last(reqs').pc = "returned" ]_vars

\* A POST /messages for a session that was registered and has closed, and
\* one for an id that was never registered, have both been answered 404.
C2_Witness ==
    \E r1 \in Reqs, r2 \in Reqs :
        /\ reqs[r1].route = "POST /messages" /\ reqs[r1].status = 404
        /\ reqs[r1].sid \in 1..Len(sessions) /\ ~sessions[reqs[r1].sid].open
        /\ reqs[r2].route = "POST /messages" /\ reqs[r2].status = 404
        /\ reqs[r2].sid = 0

\* The names of the tool catalog.
CatalogNames == {ToolCatalog[i] : i \in 1..Len(ToolCatalog)}

\* Request r carried a tools/call message for a name outside the catalog.
UnknownCall(r) ==
    /\ reqs[r].body # None
    /\ reqs[r].body.method = "tools/call"
    /\ reqs[r].body.name \notin CatalogNames

\* C3 as stated: for a tool name outside the catalog the handler's result
\* is flagged as an error and its message is "Unknown tool: <name>".
C3_AsStated ==
    \A r \in Reqs :
        UnknownCall(r) =>
            /\ reqs[r].result.isError = TRUE
            /\ reqs[r].result.content[1].text = "Unknown tool: " \o reqs[r].body.name

\* C3, amended: for a tool name outside the catalog the handler returns (it
\* does not throw) a result flagged as an error whose one text block is
\* "Error: Unknown tool: <name>", and no outbound call is issued.
C3_UnknownTool ==
    \A r \in Reqs :
        UnknownCall(r) =>
            /\ reqs[r].pc = "done"
            /\ reqs[r].result =
                    [content |-> << [type |-> "text",
                                     text |-> "Error: Unknown tool: " \o reqs[r].body.name] >>,
                     isError |-> TRUE]
            /\ reqs[r].used = 0
            /\ \A o \in outbound : o.req # r

\* A call of an unknown tool has been answered, over each transport.
C3_Witness ==
    \E r1 \in Reqs, r2 \in Reqs :
        /\ UnknownCall(r1) /\ reqs[r1].route = "POST /mcp"
        /\ UnknownCall(r2) /\ reqs[r2].route = "POST /messages"

\* The adapter call of request r has failed.
AdapterFailed(r) ==
    /\ reqs[r].fetched # None
    /\ reqs[r].fetched.kind # "ok"

\* The message of the fault the adapter raised for request r.
FaultMessage(r) ==
    IF reqs[r].fetched.kind = "http"
    THEN "Attio API error: " \o reqs[r].fetched.status \o " "
            \o reqs[r].fetched.statusText \o " - " \o reqs[r].fetched.text
    ELSE reqs[r].fetched.text

\* C4: when the adapter raises during a registered tool call, the handler
\* returns a result of exactly one text block "Error: <original message>"
\* flagged as an error, and the transport answers normally: /mcp with 200
\* and the result, /messages with 202.
C4_AdapterFault ==
    \A r \in Reqs :
        AdapterFailed(r) =>
            /\ reqs[r].pc = "done"
            /\ reqs[r].result =
                    [content |-> << [type |-> "text",
                                     text |-> "Error: " \o FaultMessage(r)] >>,
                     isError |-> TRUE]
            /\ reqs[r].route = "POST /mcp" =>
                    /\ reqs[r].status = 200
                    /\ reqs[r].httpBody.result = reqs[r].result
            /\ reqs[r].route = "POST /messages" => reqs[r].status = 202

\* attio_create_person has met a non-OK backend response, and another tool
\* call a rejected fetch.
C4_Witness ==
    \E r1 \in Reqs, r2 \in Reqs :
        /\ AdapterFailed(r1) /\ reqs[r1].fetched.kind = "http"
        /\ reqs[r1].body.name = "attio_create_person"
        /\ AdapterFailed(r2) /\ reqs[r2].fetched.kind = "reject"

\* Request r is a POST that carries no credential: no process-wide default
\* and no x-auth-token header.
NoCredential(r) == IsPost(r) /\ envKey = "" /\ reqs[r].header = ""

\* The requests for which an adapter was constructed.
WithClient == {r \in Reqs : reqs[r].client # 0}

\* C5: a POST to /mcp or to /messages for a registered session that carries
\* no credential returns before run: no adapter is constructed, no context
\* is bound, no engine is created, the message is never read or dispatched
\* and no outbound call is made.
C5_NoCredential ==
    /\ Len(clients) = Cardinality(WithClient)
    /\ \A r \in Reqs :
        NoCredential(r) =>
            /\ reqs[r].client = 0
            /\ asyncLocalStorage[r] = 0
            /\ reqs[r].server = "none"
            /\ reqs[r].pc = "returned"
            /\ reqs[r].body = None /\ reqs[r].result = None
            /\ reqs[r].used = 0
            /\ \A o \in outbound : o.req # r

\* A POST /mcp and a POST /messages for a registered session have arrived
\* without a credential.
C5_Witness ==
    \E r1 \in Reqs, r2 \in Reqs :
        /\ NoCredential(r1) /\ reqs[r1].route = "POST /mcp"
        /\ NoCredential(r2) /\ reqs[r2].route = "POST /messages"
        /\ reqs[r2].status # 404

\* A result envelope: a content sequence of text blocks, and isError, when
\* present, a boolean.
ValidEnvelope(result) ==
    /\ "content" \in DOMAIN result
    /\ Len(result.content) >= 1
    /\ \A i \in 1..Len(result.content) : result.content[i].type = "text"
    /\ "isError" \in DOMAIN result => result.isError \in BOOLEAN

\* The route handler of request r and everything it started have ended.
Ended(r) == reqs[r].pc \in {"returned", "rejected", "done"}

\* Request r may carry a tool call: its message is a tools/call, or was
\* never read.
MayBeCall(r) ==
    /\ reqs[r].route = "POST /mcp"
    /\ reqs[r].body = None \/ reqs[r].body.method = "tools/call"

\* C6: every tool call a client submits receives a structurally valid
\* response: once the handling of a POST /mcp that carries a tool call has
\* ended, the client has been sent a result envelope.
C6_EveryCallAnswered ==
    \A r \in Reqs :
        (MayBeCall(r) /\ Ended(r)) =>
            /\ reqs[r].status = 200
            /\ ValidEnvelope(reqs[r].result)
            /\ reqs[r].httpBody.result = reqs[r].result

\* Request r passed the session lookup and the credential check.
Admitted(r) ==
    /\ IsPost(r)
    /\ envKey # "" \/ reqs[r].header # ""
    /\ reqs[r].route = "POST /messages" => reqs[r].status # 404

\* C7: a new adapter is constructed for every credentialed POST /mcp and
\* POST /messages the server admits; no adapter belongs to two requests, and
\* a request's context and tool handler hold no adapter but its own.
C7_FreshAdapter ==
    /\ Len(clients) = Cardinality(WithClient)
    /\ \A r \in Reqs :
        /\ Admitted(r) => reqs[r].client \in 1..Len(clients)
        /\ asyncLocalStorage[r] \in {0, reqs[r].client}
        /\ reqs[r].used \in {0, reqs[r].client}
        /\ \A q \in Reqs :
                (q # r /\ reqs[r].client # 0) => reqs[q].client # reqs[r].client

\* Two messages on one session with the same credential have run tool calls,
\* each with an adapter of its own.
C7_Witness ==
    \E r1 \in Reqs, r2 \in Reqs :
        /\ r1 < r2
        /\ reqs[r1].route = "POST /messages" /\ reqs[r2].route = "POST /messages"
        /\ reqs[r1].sid = reqs[r2].sid
        /\ reqs[r1].header = reqs[r2].header
        /\ reqs[r1].used # 0 /\ reqs[r2].used # 0
        /\ reqs[r1].used # reqs[r2].used

\* C8: on an event-stream session each message's tool call uses the
\* credential extracted for that message's own POST, whatever credential
\* earlier messages on the session carried.
C8_CredentialPerMessage ==
    \A r \in Reqs :
        (reqs[r].route = "POST /messages" /\ reqs[r].client # 0) =>
            /\ clients[reqs[r].client].apiKey = Credential(r)
            /\ reqs[r].used # 0 =>
                    /\ clients[reqs[r].used].apiKey = Credential(r)
                    /\ \A o \in outbound :
                            o.req = r =>
                                o.fetch.authorization = "Bearer " \o Credential(r)

\* Two messages on one session carried different credentials and each has
\* issued its outbound call with its own.
C8_Witness ==
    \E r1 \in Reqs, r2 \in Reqs, o1 \in outbound, o2 \in outbound :
        /\ r1 < r2
        /\ reqs[r1].route = "POST /messages" /\ reqs[r2].route = "POST /messages"
        /\ reqs[r1].sid = reqs[r2].sid
        /\ o1.req = r1 /\ o2.req = r2
        /\ o1.fetch.authorization = "Bearer " \o reqs[r1].header
        /\ o2.fetch.authorization = "Bearer " \o reqs[r2].header
        /\ reqs[r1].header # reqs[r2].header

\* C9: GET /mcp and DELETE /mcp are answered 405 with the fixed envelope,
\* with or without a credential, and construct no adapter, no context and
\* no protocol engine.
C9_MethodNotAllowed ==
    /\ Len(clients) = Cardinality(WithClient)
    /\ \A r \in Reqs :
        reqs[r].route \in {"GET /mcp", "DELETE /mcp"} =>
            /\ reqs[r].status = 405
            /\ reqs[r].httpBody =
                    [jsonrpc |-> "2.0",
                     error |-> [code |-> -32000, message |-> "Method not allowed."],
                     id |-> "null"]
            /\ reqs[r].client = 0
            /\ asyncLocalStorage[r] = 0
            /\ reqs[r].server = "none"

\* A GET /mcp with a credential and a DELETE /mcp without one have been
\* answered while a session was registered.
C9_Witness ==
    \E r1 \in Reqs, r2 \in Reqs :
        /\ reqs[r1].route = "GET /mcp" /\ reqs[r1].header # ""
        /\ reqs[r2].route = "DELETE /mcp" /\ reqs[r2].header = "" /\ envKey = ""
        /\ transports # {}

\* C10: the session map holds session id s exactly when the connection of
\* s has been opened by GET /sse and has not closed; adapters and contexts
\* exist only for requests, none for a session.
C10_SessionMap ==
    /\ transports = {s \in 1..Len(sessions) : sessions[s].open}
    /\ Len(clients) = Cardinality(WithClient)
    /\ Len(asyncLocalStorage) = Len(reqs)

\* With no credential anywhere, one session has been opened and closed and
\* another is open.
C10_Witness ==
    /\ envKey = ""
    /\ reqs = << >>
    /\ Len(sessions) = 2
    /\ ~sessions[1].open
    /\ transports = {2}

\* A fault was raised while the server handled POST /mcp request r, before
\* any response header was sent: server.connect threw, or the transport
\* threw while handling the request.
McpFaulted(r) ==
    /\ reqs[r].route = "POST /mcp"
    /\ \/ reqs[r].pc = "returned" /\ reqs[r].client # 0
       \/ reqs[r].pc = "rejected"

\* C11: a fault raised while the server handles a POST /mcp request, while
\* connecting the engine or while the transport handles the request, is
\* answered 500 with the internal-error envelope.
C11_InternalError ==
    \A r \in Reqs :
        McpFaulted(r) =>
            /\ reqs[r].status = 500
            /\ reqs[r].httpBody =
                    [jsonrpc |-> "2.0",
                     error |-> [code |-> -32603, message |-> "Internal server error"],
                     id |-> "null"]

\* At this step the engine answers a tools/list message of request r.
ListAnswered(r) ==
    /\ r \in Reqs
    /\ reqs[r].pc = "handling"
    /\ reqs'[r].pc = "done"
    /\ reqs'[r].body.method = "tools/list"

\* C12: a list-tools request, on any engine and after any other requests,
\* returns the nine tools in the one fixed order and changes no state of
\* the server: the session map, the sessions, the adapters, the outbound
\* calls and every other request stay as they were.
C12_ListTools ==
    [][ \A r \in 1..MaxReqs :
            ListAnswered(r) =>
                /\ reqs'[r].result =
                        [tools |->
                            << "attio_search_people", "attio_search_companies",
                               "attio_search_deals", "attio_search_notes",
                               "attio_create_note", "attio_create_person",
                               "attio_create_company", "attio_update_person",
                               "attio_update_company" >>]
                /\ UNCHANGED << envKey, clients, transports, sessions, outbound >>
                /\ \A q \in Reqs : q # r => reqs'[q] = reqs[q]
                /\ \A q \in Reqs : q # r => asyncLocalStorage'[q] = asyncLocalStorage[q] ]_vars

\* Two list-tools requests, one over each transport and the second after a
\* session was opened, have been answered with the same result.
C12_Witness ==
    \E r1 \in Reqs, r2 \in Reqs :
        /\ reqs[r1].route = "POST /mcp" /\ reqs[r2].route = "POST /messages"
        /\ reqs[r1].pc = "done" /\ reqs[r2].pc = "done"
        /\ reqs[r1].body.method = "tools/list"
        /\ reqs[r2].body.method = "tools/list"
        /\ reqs[r1].result = reqs[r2].result

\* Request r carried a tools/call message for a tool of the catalog, which
\* the engine dispatched to the call-tool handler.
RegisteredCall(r) ==
    /\ reqs[r].body # None
    /\ reqs[r].body.method = "tools/call"
    /\ reqs[r].body.name \in CatalogNames

\* The result of request r is flagged as an error.
Flagged(r) ==
    /\ "isError" \in DOMAIN reqs[r].result
    /\ reqs[r].result.isError = TRUE

\* C15: every tool call that reaches the dispatcher over POST /mcp or POST
\* /messages runs under a request context: a request whose message is about
\* to be dispatched has a context, the call-tool handler of a registered
\* tool obtained the request's adapter, and no result reports a missing
\* context.
C15_ContextPresent ==
    \A r \in Reqs :
        /\ reqs[r].pc = "handling" => getAttioClient(r).ok
        /\ RegisteredCall(r) =>
                /\ reqs[r].used # 0
                /\ reqs[r].used = reqs[r].client
        /\ (reqs[r].body # None /\ reqs[r].body.method = "tools/call"
                /\ reqs[r].pc = "done" /\ Flagged(r)) =>
                reqs[r].result.content[1].text #
                    "Error: Attio client not found in AsyncLocalStorage"

\* A registered tool has been dispatched over each transport.
C15_Witness ==
    \E r1 \in Reqs, r2 \in Reqs :
        /\ reqs[r1].route = "POST /mcp" /\ RegisteredCall(r1)
        /\ reqs[r2].route = "POST /messages" /\ RegisteredCall(r2)

\* C16: the binding is scoped to the body passed to run. A lookup from the
\* execution of a request that is in no run scope (before run, with no run
\* at all, or after the body has finished) fails with the context-missing
\* fault; a lookup inside the scope gives the context that run bound.
C16_ContextScope ==
    \A r \in Reqs :
        /\ ~InRun(r) =>
                /\ ~getAttioClient(r).ok
                /\ getAttioClient(r).message =
                        "Attio client not found in AsyncLocalStorage"
        /\ InRun(r) =>
                /\ getAttioClient(r).ok
                /\ getAttioClient(r).client = reqs[r].client
                /\ reqs[r].client \in 1..Len(clients)

\* One request's tool call has finished after using its context, which is
\* gone, while another request is inside its run scope and a third kind of
\* lookup, before run, is covered by a request still connecting.
C16_Witness ==
    \E r1 \in Reqs, r2 \in Reqs :
        /\ reqs[r1].pc = "done" /\ reqs[r1].used # 0
        /\ ~getAttioClient(r1).ok
        /\ InRun(r2) /\ getAttioClient(r2).ok

\* C17: every result of the call-tool handler is an envelope with exactly
\* one text block; it is flagged as an error exactly when the tool name was
\* unknown, the context lookup failed or the adapter raised; otherwise it
\* is not flagged (the handler leaves isError out, which the protocol reads
\* as false) and its block is the indent-2 serialization of the adapter's
\* result.
C17_Envelope ==
    \A r \in Reqs :
        (reqs[r].body # None /\ reqs[r].body.method = "tools/call"
            /\ reqs[r].pc = "done") =>
            /\ DOMAIN reqs[r].result \subseteq {"content", "isError"}
            /\ Len(reqs[r].result.content) = 1
            /\ DOMAIN reqs[r].result.content[1] = {"type", "text"}
            /\ reqs[r].result.content[1].type = "text"
            /\ Flagged(r) <=>
                    \/ reqs[r].body.name \notin CatalogNames
                    \/ reqs[r].used = 0
                    \/ AdapterFailed(r)
            /\ ~Flagged(r) =>
                    reqs[r].result.content[1].text =
                        [json |-> AdapterResult(reqs[r].body.name,
                                                reqs[r].body.arguments,
                                                reqs[r].fetched.json),
                         indent |-> 2]

\* One tool call has succeeded and another has ended in an error result.
C17_Witness ==
    \E r1 \in Reqs, r2 \in Reqs :
        /\ RegisteredCall(r1) /\ reqs[r1].pc = "done" /\ ~Flagged(r1)
        /\ RegisteredCall(r2) /\ reqs[r2].pc = "done" /\ Flagged(r2)

\* The outbound calls issued for request r.
CallsOf(r) == {o \in outbound : o.req = r}

\* C18: each invocation of a registered tool issues exactly one outbound
\* call and nothing else issues any, so the outbound calls are as many as
\* the dispatched registered-tool invocations; a failed call is not issued
\* again but ends the invocation with an error result.
C18_OneOutboundCall ==
    /\ \A r \in Reqs :
        /\ Cardinality(CallsOf(r)) = IF RegisteredCall(r) THEN 1 ELSE 0
        /\ AdapterFailed(r) => reqs[r].pc = "done" /\ Flagged(r)
    /\ Cardinality(outbound) = Cardinality({r \in Reqs : RegisteredCall(r)})

\* Two registered tools have been invoked; the call of one failed.
C18_Witness ==
    \E r1 \in Reqs, r2 \in Reqs :
        /\ r1 # r2
        /\ AdapterFailed(r1)
        /\ RegisteredCall(r2)
        /\ Cardinality(outbound) = 2

\* C20: only the event-stream handlers change the session map. A step that
\* changes it is a GET /sse inserting the new session or a connection close
\* removing its own; every step of a request (POST /mcp, GET /mcp, DELETE
\* /mcp, POST /messages, list-tools, a tool call) leaves the map and the
\* sessions as they were, and a POST /mcp carries no session identifier.
C20_SessionMapFrame ==
    [][ /\ reqs' # reqs => transports' = transports /\ sessions' = sessions
        /\ transports' # transports =>
              \/ /\ Len(sessions') = Len(sessions) + 1
                 /\ transports' = transports \cup {Len(sessions')}
              \/ \E s \in 1..Len(sessions) :
                    /\ sessions[s].open /\ ~sessions'[s].open
                    /\ transports' = transports \ {s}
        /\ \A r \in 1..Len(reqs') :
              reqs'[r].route = "POST /mcp" => reqs'[r].sid = 0 ]_vars

\* With one session registered and one closed, a tool call over POST /mcp
\* and one over POST /messages have finished.
C20_Witness ==
    \E r1 \in Reqs, r2 \in Reqs :
        /\ reqs[r1].route = "POST /mcp" /\ reqs[r1].pc = "done"
        /\ reqs[r2].route = "POST /messages" /\ reqs[r2].pc = "done"
        /\ Cardinality(transports) = 1
        /\ Len(sessions) = 2

\* C19: a close event of session s removes the entry of s whatever the
\* state of the map and touches no other session: every other entry is in
\* the map after the step exactly if it was before. A close event for a
\* session already removed leaves the map as it was and disturbs no
\* request.
C19_CloseIdempotent ==
    [][ \A s \in 1..Len(sessions) :
          sessions'[s].closes > sessions[s].closes =>
              /\ s \notin transports'
              /\ transports' = transports \ {s}
              /\ \A b \in 1..Len(sessions) :
                    b # s => sessions'[b] = sessions[b]
              /\ sessions[s].closes >= 1 =>
                    /\ transports' = transports
                    /\ reqs' = reqs ]_vars

\* A session has seen a second close event while another session is still
\* registered.
C19_Witness ==
    \E a \in 1..Len(sessions), b \in 1..Len(sessions) :
        /\ sessions[a].closes = 2
        /\ b \in transports

\* The filter arguments each record search recognises, and the type of each.
FilterFields(name) ==
    CASE name = "attio_search_people" -> {"query", "email"}
      [] name = "attio_search_companies" -> {"query", "domain"}
      [] name = "attio_search_deals" -> {"name", "stage", "minValue", "maxValue"}

FilterType(key) == IF key \in {"minValue", "maxValue"} THEN "number" ELSE "string"

RecordSearches ==
    {"attio_search_people", "attio_search_companies", "attio_search_deals"}

\* C13: the outbound call of a people, company or deal search whose
\* arguments hold no filter argument (none at all, or only limit) has a
\* body whose only key is limit; when at least one recognised filter
\* argument of the right type is present, the body has exactly the keys
\* filter and limit, and the filter is not empty.
C13_SearchBody ==
    \A r \in Reqs : \A c \in CallsOf(r) :
        reqs[r].body.name \in RecordSearches =>
            LET args == reqs[r].body.arguments
                fields == FilterFields(reqs[r].body.name)
                sent == c.fetch.body.json
                NoFilter == args.t # "object" \/ fields \cap DOMAIN args.o = {}
                SomeFilter ==
                    \E k \in fields : TypeOf(Get(args, k)) = FilterType(k)
            IN  /\ c.fetch.method = "POST"
                /\ NoFilter => DOMAIN sent = {"limit"}
                /\ SomeFilter =>
                        /\ DOMAIN sent = {"filter", "limit"}
                        /\ DOMAIN sent.filter # {}

\* A people search with a wrong-typed query, an email and a limit has gone
\* out with the email filter and the limit.
C13_Witness ==
    \E r \in Reqs : \E c \in CallsOf(r) :
        /\ reqs[r].body.name = "attio_search_people"
        /\ reqs[r].body.arguments =
                JObject([query |-> JNumber(5), email |-> JString(<<"a">>),
                         limit |-> JNumber(5)])
        /\ c.fetch.body.json =
                [filter |-> [email_addresses |-> JString(<<"a">>)],
                 limit |-> JNumber(5)]

\* Two characters are the same letter whatever their case.
SameLetter(x, y) ==
    LET Upper(ch) == CASE ch = "a" -> "A" [] ch = "b" -> "B" [] ch = "c" -> "C"
                       [] OTHER -> ch
    IN  Upper(x) = Upper(y)

\* The text holds the query at some position, letter case apart.
HoldsIgnoringCase(text, query) ==
    \E i \in 0..(Len(text) - Len(query)) :
        \A j \in 1..Len(query) : SameLetter(text[i + j], query[j])

\* A note matches when its title, plain-text content or markdown content is
\* a string that holds the query.
NoteMatches(note, query) ==
    \E f \in {"title", "content_plaintext", "content_markdown"} :
        /\ f \in DOMAIN note.o
        /\ note.o[f].t = "string"
        /\ HoldsIgnoringCase(note.o[f].s, query)

\* The positions of the page whose notes match, in increasing order.
RECURSIVE MatchingNotes(_, _)
MatchingNotes(page, query) ==
    IF page = <<>> THEN <<>>
    ELSE IF NoteMatches(Head(page), query)
    THEN <<Head(page)>> \o MatchingNotes(Tail(page), query)
    ELSE MatchingNotes(Tail(page), query)

\* C14: a note search asks the backend for one page with the limit in the
\* query string and, when the answer is a page, returns the notes of that
\* page that match the query, in the page's order and as they were
\* fetched; with a query that is absent, not a string, empty or only
\* spaces it returns the page as fetched. Every returned note is a note of
\* the fetched page.
C14_SearchNotes ==
    \A r \in Reqs :
        (RegisteredCall(r) /\ reqs[r].body.name = "attio_search_notes") =>
            LET args == reqs[r].body.arguments
                query == IF args.t = "object" /\ "query" \in DOMAIN args.o
                             /\ args.o["query"].t = "string"
                         THEN args.o["query"].s ELSE <<>>
                limit == IF args.t = "object" /\ "limit" \in DOMAIN args.o
                             /\ args.o["limit"].t = "number"
                         THEN args.o["limit"].n ELSE 50
                Blank == \A i \in 1..Len(query) : query[i] = " "
            IN  /\ \A c \in CallsOf(r) :
                        /\ c.fetch.method = "GET"
                        /\ c.fetch.url = "https://api.attio.com/v2/notes?limit="
                                            \o ToString(limit)
                /\ (reqs[r].pc = "done" /\ reqs[r].fetched.kind = "ok"
                        /\ reqs[r].fetched.json \in NotePages) =>
                        LET page == reqs[r].fetched.json.o["data"].a
                            returned == reqs[r].result.content[1].text.json
                        IN  /\ returned.t = "object"
                            /\ DOMAIN returned.o = {"data"}
                            /\ returned.o["data"].t = "array"
                            /\ returned.o["data"].a =
                                    IF Blank THEN page
                                    ELSE MatchingNotes(page, query)
                            /\ \A i \in 1..Len(returned.o["data"].a) :
                                    \E j \in 1..Len(page) :
                                        returned.o["data"].a[i] = page[j]

\* A search for "a" over the page of the note titled "c" and the note
\* titled "Ab" has returned the second note alone.
C14_Witness ==
    \E r \in Reqs :
        /\ reqs[r].pc = "done"
        /\ reqs[r].body.name = "attio_search_notes"
        /\ reqs[r].body.arguments = JObject([query |-> JString(<<"a">>)])
        /\ reqs[r].fetched.kind = "ok"
        /\ reqs[r].fetched.json =
                JObject([data |-> JArray(
                    << JObject([id |-> JNumber(4), title |-> JString(<<"c">>)]),
                       JObject([id |-> JNumber(1),
                                title |-> JString(<<"A", "b">>)]) >>)])
        /\ reqs[r].result.content[1].text.json =
                JObject([data |-> JArray(
                    << JObject([id |-> JNumber(1),
                                title |-> JString(<<"A", "b">>)]) >>)])

\* Request r is a POST /mcp that carried a credential: the route handler
\* created an engine and a transport for it.
CredentialedMcp(r) == reqs[r].route = "POST /mcp" /\ reqs[r].client # 0

\* C21: every credentialed POST /mcp has an engine and a transport of its
\* own, and once the request's connection has closed both have been
\* closed: no engine of a /mcp request is left unreleased after the close.
C21_Released ==
    \A r \in Reqs :
        CredentialedMcp(r) =>
            /\ reqs[r].server # "none"
            /\ reqs[r].transport # "none"
            /\ reqs[r].conn = "closed" =>
                    /\ reqs[r].server = "closed"
                    /\ reqs[r].transport = "closed"

ParamType(key) ==
    IF key \in {"email_addresses", "phone_numbers", "domains"} THEN "array"
    ELSE IF key \in {"limit", "minValue", "maxValue"} THEN "number"
    ELSE "string"

\* The argument is absent (no arguments at all, or no such key) or is not of
\* the type the handler expects.
Missing(args, key) ==
    \/ args.t # "object"
    \/ key \notin DOMAIN args.o
    \/ args.o[key].t # ParamType(key)

\* The arguments without those of the wrong type.
WellTyped(args) ==
    IF args.t # "object" THEN JObject(<<>>)
    ELSE JObject([k \in {k \in DOMAIN args.o : args.o[k].t = ParamType(k)}
                    |-> args.o[k]])

WriteTools ==
    {"attio_create_note", "attio_create_person", "attio_create_company",
     "attio_update_person", "attio_update_company"}

\* The optional arguments that are parameters of the adapter methods.
OptionalParams(name) ==
    CASE name \in RecordSearches -> {"limit"}
      [] name = "attio_search_notes" -> {"query", "limit"}
      [] name = "attio_create_note" -> {"format"}
      [] name \in {"attio_create_person", "attio_update_person"} ->
            {"name", "email_addresses", "phone_numbers", "job_title",
             "description"}
      [] name \in {"attio_create_company", "attio_update_company"} ->
            {"name", "domains", "description"}

\* What the case passes to the adapter for one of these arguments.
PassedParam(name, args, key) ==
    IF name \in WriteTools
    THEN CoercedArgs(name, args).data[key]
    ELSE CoercedArgs(name, args)[key]

\* What the case passes when the argument is missing: the default of
\* limit, of the query of a note search and of format, undefined for the
\* rest.
MissingParam(name, key) ==
    CASE key = "limit" ->
            IF name = "attio_search_notes" THEN JNumber(50) ELSE JNumber(25)
      [] key = "query" -> JString(<<>>)
      [] key = "format" ->
            JString(<< "p", "l", "a", "i", "n", "t", "e", "x", "t" >>)
      [] OTHER -> Undefined

\* C23 as the specification states it: every optional argument that is
\* absent or of the wrong type reaches the adapter as undefined.
C23_AsStated ==
    \A r \in Reqs :
        RegisteredCall(r) =>
            \A key \in OptionalParams(reqs[r].body.name) :
                Missing(reqs[r].body.arguments, key) =>
                    PassedParam(reqs[r].body.name, reqs[r].body.arguments, key)
                        = Undefined

\* C23: coercion is permissive. For every registered tool and whatever the
\* arguments (none at all included), the handler reaches its adapter call:
\* the one outbound call is the call made for the arguments without those
\* of the wrong type, an absent or wrong-typed optional argument reaches
\* the adapter as undefined, or as its default for limit, the query of a
\* note search and format, an undefined field is left out of a create or
\* update body, and an error result comes from the adapter call only.
C23_Coercion ==
    \A r \in Reqs :
        RegisteredCall(r) =>
            LET name == reqs[r].body.name
                args == reqs[r].body.arguments
                call == AdapterCall(name, WellTyped(args))
            IN  /\ CallsOf(r) =
                    {[req |-> r, attempt |-> 1, client |-> reqs[r].client,
                      fetch |-> [url |-> "https://api.attio.com/v2"
                                            \o call.endpoint,
                                 method |-> call.method,
                                 authorization |->
                                    "Bearer " \o clients[reqs[r].client].apiKey,
                                 body |-> call.body]]}
                /\ \A key \in OptionalParams(name) :
                        Missing(args, key) =>
                            /\ PassedParam(name, args, key) =
                                    MissingParam(name, key)
                            /\ (name \in WriteTools /\ key # "format") =>
                                    \A c \in CallsOf(r) :
                                        key \notin
                                            DOMAIN c.fetch.body.json.data.values
                /\ (reqs[r].pc = "done" /\ Flagged(r)) => AdapterFailed(r)

\* A person has been created from a numeric name, a string in place of the
\* array of email addresses and a job title: the body holds the job title
\* alone.
C23_Witness ==
    \E r \in Reqs : \E c \in CallsOf(r) :
        /\ reqs[r].body.name = "attio_create_person"
        /\ reqs[r].body.arguments =
                JObject([name |-> JNumber(5),
                         email_addresses |-> JString(<<"a">>),
                         job_title |-> JString(<<"a">>)])
        /\ c.fetch.body.json =
                [data |-> [values |-> [job_title |-> JString(<<"a">>)]]]
        /\ reqs[r].pc = "done"
        /\ ~Flagged(r)

\* C24: on POST /messages the session is looked up before the credential.
\* A request for an id that is not in the session map is answered 404 with
\* {error: "Transport not found"} whether or not it carries a credential; a
\* request for a registered id without a credential gets no status and no
\* body, hands no message to the transport, builds no adapter, and leaves
\* the session in the map; such a request never gets an answer later.
C24_LookupFirst ==
    [][ /\ MessagePosted =>
            /\ Last(reqs').sid \notin transports =>
                    /\ Last(reqs').status = 404
                    /\ Last(reqs').httpBody = [error |-> "Transport not found"]
                    /\ clients' = clients
            /\ (/\ Last(reqs').sid \in transports
                /\ envKey = "" /\ Last(reqs').header = "") =>
                    /\ Last(reqs').status = 0
                    /\ Last(reqs').httpBody = None
                    /\ Last(reqs').pc = "returned"
                    /\ Last(reqs').body = None
                    /\ Last(reqs').client = 0
                    /\ Last(asyncLocalStorage') = 0
                    /\ clients' = clients
                    /\ transports' = transports
                    /\ sessions' = sessions
        /\ \A r \in 1..Len(reqs) :
              (/\ reqs[r].route = "POST /messages"
               /\ reqs[r].status = 0 /\ reqs[r].pc = "returned") =>
                    reqs'[r] = reqs[r] ]_vars

\* Without any credential, a message for an unregistered id has been
\* answered 404 and a message for a registered id has got no answer, its
\* session still registered.
C24_Witness ==
    \E r1 \in Reqs, r2 \in Reqs :
        /\ envKey = ""
        /\ reqs[r1].route = "POST /messages" /\ reqs[r1].header = ""
        /\ reqs[r1].status = 404
        /\ reqs[r2].route = "POST /messages" /\ reqs[r2].header = ""
        /\ reqs[r2].status = 0 /\ reqs[r2].pc = "returned"
        /\ reqs[r2].sid \in transports

\* C25: the credential of a request's adapter is a function of the
\* process-wide default and the request's header, and the default wins:
\* when it is set every adapter holds it, whatever the header, so that
\* requests with different headers share one credential; when it is unset
\* the adapter holds the request's own header value.
C25_DefaultPrecedence ==
    \A r \in Reqs :
        reqs[r].client # 0 =>
            /\ envKey # "" => clients[reqs[r].client].apiKey = envKey
            /\ envKey = "" =>
                    /\ reqs[r].header # ""
                    /\ clients[reqs[r].client].apiKey = reqs[r].header
            /\ \A q \in Reqs :
                    (reqs[q].client # 0
                        /\ (envKey # "" \/ reqs[q].header = reqs[r].header)) =>
                        clients[reqs[q].client].apiKey =
                            clients[reqs[r].client].apiKey

\* With the default set, a POST /mcp and a POST /messages with different
\* headers have both called the backend with the default.
C25_Witness ==
    \E r1 \in Reqs, r2 \in Reqs, o1 \in outbound, o2 \in outbound :
        /\ envKey = "envKey"
        /\ reqs[r1].route = "POST /mcp" /\ reqs[r1].header = "tokA"
        /\ reqs[r2].route = "POST /messages" /\ reqs[r2].header = "tokB"
        /\ o1.req = r1 /\ o2.req = r2
        /\ o1.fetch.authorization = "Bearer envKey"
        /\ o2.fetch.authorization = "Bearer envKey"

\* The names of the list-tools result.
ListedNames == {ListTools.tools[i] : i \in 1..Len(ListTools.tools)}

\* Request r carried a tools/call message.
ToolCalled(r) == reqs[r].body # None /\ reqs[r].body.method = "tools/call"

\* C26: the catalog and the dispatcher agree. The names of the list-tools
\* result are pairwise distinct; a call of a listed name reaches its case,
\* which makes the adapter call, and is never answered with the
\* unknown-tool error; a call that reached a case was a call of a listed
\* name, and a call of any other name is answered with that error.
C26_CatalogAgrees ==
    /\ \A i \in 1..Len(ListTools.tools), j \in 1..Len(ListTools.tools) :
            i # j => ListTools.tools[i] # ListTools.tools[j]
    /\ \A r \in Reqs :
        ToolCalled(r) =>
            /\ reqs[r].body.name \in ListedNames =>
                    /\ CallsOf(r) # {}
                    /\ (reqs[r].pc = "done" /\ Flagged(r)) =>
                            reqs[r].result.content[1].text #
                                "Error: Unknown tool: " \o reqs[r].body.name
            /\ CallsOf(r) # {} => reqs[r].body.name \in ListedNames
            /\ reqs[r].body.name \notin ListedNames =>
                    /\ Flagged(r)
                    /\ reqs[r].result.content[1].text =
                            "Error: Unknown tool: " \o reqs[r].body.name

\* The last tool of the catalog has been called and has answered without
\* an error.
C26_Witness ==
    \E r \in Reqs :
        /\ ToolCalled(r)
        /\ reqs[r].body.name = ListTools.tools[Len(ListTools.tools)]
        /\ Len(ListTools.tools) = 9
        /\ CallsOf(r) # {}
        /\ reqs[r].pc = "done" /\ ~Flagged(r)

====
